---- MODULE Spec2Model ----
(***************************************************************************)
(* Model of src/main.py: the FastAPI application of the James Lee Builders *)
(* backend.  The state machine covers the import of the module (lines      *)
(* 1-9), the quote submission handler submit_quote (lines 23-69) run by    *)
(* several requests at once, and the diagnostics endpoint test_database    *)
(* (lines 98-140).                                                         *)
(*                                                                         *)
(* Python values are records [t, v]: None is [t |-> "none"], a str is      *)
(* [t |-> "str", v |-> ...].  Strings that the code parses or validates    *)
(* (SMTP_PORT, the email address) are sequences of characters.             *)
(***************************************************************************)
EXTENDS Integers, Sequences, FiniteSets, TLC

\* Number of submissions handled at once by the server.
NumHandlers == 2

Handlers == 1..NumHandlers

---------------------------------------------------------------------------
\* Python values

None == [t |-> "none", v |-> ""]

Str(s) == [t |-> "str", v |-> s]

\* Python truthiness of None and str, as used by `and` and `or`.
Truthy(x) == x.t = "str" /\ x.v # ""

\* `a or b` (main.py line 47)
PyOr(a, b) == IF Truthy(a) THEN a ELSE b

\* os.getenv(name): None when the variable is unset.
GetEnv(e, name) == e[name]

\* os.getenv(name, default)
GetEnvDefault(e, name, default) == IF e[name].t = "none" THEN default ELSE e[name]

---------------------------------------------------------------------------
\* Exception classes and `except` matching

ExcParent ==
    [ Exception             |-> "BaseException",
      KeyboardInterrupt     |-> "BaseException",
      ImportError           |-> "Exception",
      ModuleNotFoundError   |-> "ImportError",
      ValueError            |-> "Exception",
      AttributeError        |-> "Exception",
      OSError               |-> "Exception",
      ConnectionError       |-> "OSError",
      TimeoutError          |-> "OSError",
      SMTPException         |-> "OSError",
      PyMongoError          |-> "Exception" ]

RECURSIVE IsSubclass(_, _)
IsSubclass(k, c) ==
    IF k = c THEN TRUE
    ELSE IF k \in DOMAIN ExcParent THEN IsSubclass(ExcParent[k], c)
    ELSE FALSE

\* The class named by the `except` clauses of submit_quote (lines 28, 66).
QuoteExceptClass == "Exception"

\* A narrower clause, as a handler written for connection failures only would have.
QuoteCatchesNarrow(k) == IsSubclass(k, "ConnectionError")

\* Whether `except Exception` of submit_quote catches an exception of class k.
QuoteCatches(k) == IsSubclass(k, QuoteExceptClass)

---------------------------------------------------------------------------
\* Request payloads (schemas.QuoteRequest) and their validation

Chars(s) == Str(s)

\* A syntactically valid address: one "@", a non-empty local part, and a
\* domain with a "." that is neither its first nor its last character.
IsValidEmail(e) ==
    LET ats == {i \in 1..Len(e) : e[i] = "@"}
    IN  /\ Cardinality(ats) = 1
        /\ LET at == CHOOSE i \in ats : TRUE
           IN  /\ at > 1
               /\ \E d \in (at + 2)..(Len(e) - 1) : e[d] = "."
               /\ e[at + 1] # "."
               /\ e[Len(e)] # "."

\* QuoteRequest: name and email are required, email is an EmailStr.
ValidQuoteRequest(p) ==
    /\ p.name.t = "str"
    /\ p.email.t = "str"
    /\ IsValidEmail(p.email.v)

AnnRequest ==
    [ name |-> Str("Ann"), email |-> Chars(<<"a", "@", "x", ".", "y">>),
      phone |-> Str("0123"), projectType |-> Str("Driveway"),
      postcode |-> Str("BB4"), message |-> Str("Please call") ]

BobRequest ==
    [ name |-> Str("Bob"), email |-> Chars(<<"b", "@", "x", ".", "y">>),
      phone |-> Str(""), projectType |-> Str("Roofing"),
      postcode |-> Str("BL0"), message |-> Str("") ]

\* The bodies a client may post: well-formed ones, one whose email is not an
\* address ("not-an-email"), and one without the required name.
Payloads ==
    { AnnRequest, BobRequest,
      [AnnRequest EXCEPT !.email = Chars(<<"n", "o", "t", "-", "a", "n">>)],
      [BobRequest EXCEPT !.name = None] }

\* What FastAPI does with the body before calling submit_quote(payload: QuoteRequest):
\* TRUE when the body is handed to the handler, FALSE when it is answered with
\* the request-validation error.
SkipValidation(p) == TRUE

ReachesHandler(p) == ValidQuoteRequest(p)

---------------------------------------------------------------------------
\* The document store behind database.create_document

\* Identifiers the store may assign (str(inserted_id)): non-empty strings.
\* They are opaque to the handler, and the store may hand any of them to any
\* submission, so that two submissions can be compared on the same identifier.
Ids == { Str("65f1a"), Str("65f1b") }

\* Exceptions create_document may raise: store errors, all of them subclasses
\* of Exception.
StoreErrors == { "Exception", "TimeoutError" }

\* The collection submit_quote writes to (line 27).
QuoteCollection == "quoterequest"

---------------------------------------------------------------------------
\* Environment and the notification message

EnvNames ==
    { "QUOTE_EMAIL_TO", "QUOTE_EMAIL_FROM", "SMTP_HOST", "SMTP_PORT", "SMTP_USER",
      "SMTP_PASS", "DATABASE_URL", "DATABASE_NAME" }

DefaultRecipient == Str("jamesleegrundy@gmail.com")

DefaultSender == Str("no-reply@flames.blue")

DefaultSmtpPort == Chars(<<"5", "8", "7">>)

Subject == "New Quote Request - James Lee Builders"

NotSaved == Str("not saved")

DigitVal ==
    ("0" :> 0) @@ ("1" :> 1) @@ ("2" :> 2) @@ ("3" :> 3) @@ ("4" :> 4) @@
    ("5" :> 5) @@ ("6" :> 6) @@ ("7" :> 7) @@ ("8" :> 8) @@ ("9" :> 9)

RECURSIVE DigitsValue(_)
DigitsValue(s) ==
    IF s = <<>> THEN 0
    ELSE 10 * DigitsValue(SubSeq(s, 1, Len(s) - 1)) + DigitVal[s[Len(s)]]

\* int(s) of line 56: the number, or ValueError for anything but decimal digits.
PyInt(s) ==
    IF Len(s) > 0 /\ \A i \in 1..Len(s) : s[i] \in DOMAIN DigitVal
    THEN [ok |-> TRUE, value |-> DigitsValue(s)]
    ELSE [ok |-> FALSE, value |-> 0]

\* str(x) of a str or None, as an f-string formats it.
PyStr(x) == IF x.t = "none" THEN Str("None") ELSE x

\* The record identifier formatted from doc_id alone, without the marker.
RecordIdUnmarked(d) == PyStr(d)

\* f"Record ID: {doc_id or 'not saved'}" (line 47)
RecordId(d) == PyOr(d, NotSaved)

\* Lines 37-53: the MIMEText message built from the payload and doc_id.
Message(e, p, d) ==
    [ Subject     |-> Subject,
      From        |-> GetEnvDefault(e, "QUOTE_EMAIL_FROM", DefaultSender).v,
      To          |-> GetEnvDefault(e, "QUOTE_EMAIL_TO", DefaultRecipient).v,
      Name        |-> p.name.v,
      Email       |-> p.email.v,
      Phone       |-> p.phone.v,
      ProjectType |-> p.projectType.v,
      Postcode    |-> p.postcode.v,
      Message     |-> p.message.v,
      RecordID    |-> RecordId(d).v ]

\* A looser test, sending as soon as a host is configured.
SmtpConfiguredHostOnly(e) == Truthy(GetEnv(e, "SMTP_HOST"))

\* `if smtp_host and smtp_user and smtp_pass` (line 60)
SmtpConfigured(e) ==
    /\ Truthy(GetEnv(e, "SMTP_HOST"))
    /\ Truthy(GetEnv(e, "SMTP_USER"))
    /\ Truthy(GetEnv(e, "SMTP_PASS"))

\* Exceptions smtplib may raise from SMTP(), starttls, login, sendmail, QUIT.
SmtpErrors == { "SMTPException", "ConnectionError" }

---------------------------------------------------------------------------
\* State

VARIABLES
    app,          \* "loading", "running" or "import_failed": the import of main.py
    modules,      \* which of the modules main.py imports can be loaded
    db,           \* database.db: "undefined", "none", or a live handle
    env,          \* os.environ
    store,        \* documents held by the store
    pc,           \* per submission: position in submit_quote
    payload,      \* per submission: the posted body
    doc_id,       \* per submission: the local doc_id
    msg,          \* per submission: the message built, None before
    conn,         \* per submission: the SMTP connection: "none", "open", "closed"
    pending,      \* per submission: exception in flight inside the `with` block
    result,       \* per submission: what the caller receives
    calls,        \* per submission: calls made to create_document, SMTP(), sendmail
    storeOutcome, \* per submission: what create_document did
    sendOutcome,  \* per submission: what became of the notification
    tpc,          \* position in test_database
    response,     \* the response dict of test_database
    testResult    \* what the caller of GET /test receives

quoteVars ==
    << pc, payload, doc_id, msg, conn, pending, result, calls, storeOutcome, sendOutcome >>

testVars == << tpc, response, testResult >>

worldVars == << modules, db, env >>

vars == << app, modules, db, env, store, quoteVars, testVars >>

NoPending == "none"

NoResult == [kind |-> "none"]

NoCalls == [store |-> 0, smtp |-> 0, sendmail |-> 0]

\* Values of the three SMTP settings: unset, empty, set.
SettingValues(v) == { None, Str(""), Str(v) }

\* Values of SMTP_PORT: unset (the default applies) or not a number.
PortValues == { None, Chars(<<"s", "m", "t", "p">>) }

BaseEnv == [n \in EnvNames |-> None]

InitQuoteState ==
    /\ pc = [h \in Handlers |-> "idle"]
    /\ payload = [h \in Handlers |-> None]
    /\ doc_id = [h \in Handlers |-> None]
    /\ msg = [h \in Handlers |-> None]
    /\ conn = [h \in Handlers |-> "none"]
    /\ pending = [h \in Handlers |-> NoPending]
    /\ result = [h \in Handlers |-> NoResult]
    /\ calls = [h \in Handlers |-> NoCalls]
    /\ storeOutcome = [h \in Handlers |-> [kind |-> "none"]]
    /\ sendOutcome = [h \in Handlers |-> "none"]

InitTestState ==
    /\ tpc = "idle"
    /\ response = None
    /\ testResult = NoResult

\* The server with its modules in place and any SMTP configuration.
Init ==
    /\ app = "loading"
    /\ modules = [schemas |-> "ok", database |-> "ok"]
    /\ db = "none"
    /\ \E host \in SettingValues("smtp.example.com"),
          user \in SettingValues("builder"),
          pass \in SettingValues("secret"),
          port \in PortValues :
            env = [BaseEnv EXCEPT !["SMTP_HOST"] = host, !["SMTP_USER"] = user,
                                  !["SMTP_PASS"] = pass, !["SMTP_PORT"] = port]
    /\ store = {}
    /\ InitQuoteState
    /\ InitTestState

---------------------------------------------------------------------------
\* Import of main.py (lines 1-9)

\* Lines 6-7: `from schemas import QuoteRequest`, `from database import create_document`.
ImportsSucceed(m) == m.schemas = "ok" /\ m.database \in {"ok", "no_db"}

LoadModule ==
    /\ app = "loading"
    /\ app' = IF ImportsSucceed(modules) THEN "running" ELSE "import_failed"
    /\ UNCHANGED << modules, db, env, store, quoteVars, testVars >>

---------------------------------------------------------------------------
\* submit_quote (lines 23-69).  A step runs from one call of a collaborator
\* (create_document, smtplib) to the next; what lies between is local to the
\* submission.

Set(f, h, v) == [f EXCEPT ![h] = v]

\* An assignment that lands in a variable shared by all submissions.
SetShared(f, h, v) == [x \in DOMAIN f |-> v]

\* Assignment to the local doc_id of submission h (lines 27, 30).
SetDocId(f, h, v) == Set(f, h, v)

Count(c, h, what) == [c EXCEPT ![h][what] = @ + 1]

\* POST /api/quote with body p (lines 23-27): the body is validated, the
\* handler is entered and calls create_document("quoterequest", payload).
Receive(h, p) ==
    /\ app = "running"
    /\ pc[h] = "idle"
    /\ payload' = Set(payload, h, p)
    /\ IF ReachesHandler(p)
       THEN /\ pc' = Set(pc, h, "persisting")
            /\ calls' = Count(calls, h, "store")
            /\ UNCHANGED result
       ELSE /\ pc' = Set(pc, h, "done")
            /\ result' = Set(result, h, [kind |-> "validation_error"])
            /\ UNCHANGED calls
    /\ UNCHANGED << app, worldVars, store, doc_id, msg, conn, pending,
                    storeOutcome, sendOutcome, testVars >>

\* A status that tells the caller when the request was not saved.
ResponseStatusWarning(d) == IF Truthy(d) THEN "ok" ELSE "warning"

\* The status of the response (line 69).
ResponseStatus(d) == "ok"

\* A response that reports a failed notification.
ResponseReportsSend(d, sent) ==
    [kind |-> "response", status |-> IF sent = "raised" THEN "error" ELSE "ok", id |-> d]

\* Line 69: {"status": "ok", "id": doc_id}
Response(d, sent) == [kind |-> "response", status |-> ResponseStatus(d), id |-> d]

\* Lines 66-69: the second try block is left, with exception exc in flight or
\* none, and the handler returns.
Finish(h, d, sent, exc) ==
    /\ pc' = Set(pc, h, "done")
    /\ result' = Set(result, h,
           IF exc = NoPending \/ QuoteCatches(exc)
           THEN Response(d, sent)
           ELSE [kind |-> "exception", exc |-> exc])

\* Lines 55-60: what the handler does with the message.
NotifyDecision(e) ==
    IF ~PyInt(GetEnvDefault(e, "SMTP_PORT", DefaultSmtpPort).v).ok THEN "port_error"
    ELSE IF SmtpConfigured(e) THEN "send"
    ELSE "unconfigured"

\* Lines 33-61, with doc_id = d: the message is built, the SMTP settings are
\* read, and either smtplib.SMTP(smtp_host, smtp_port) is called or the
\* handler returns.
Notify(h, d) ==
    /\ msg' = Set(msg, h, Message(env, payload[h], d))
    /\ LET decision == NotifyDecision(env)
       IN  IF decision = "send"
           THEN /\ pc' = Set(pc, h, "connecting")
                /\ calls' = Count(calls, h, "smtp")
                /\ UNCHANGED << result, sendOutcome >>
           ELSE /\ sendOutcome' = Set(sendOutcome, h, decision)
                /\ Finish(h, d, decision,
                          IF decision = "port_error" THEN "ValueError" ELSE NoPending)
                /\ UNCHANGED calls

\* Line 27: create_document returns the identifier of the stored document.
PersistReturn(h, id) ==
    /\ pc[h] = "persisting"
    /\ store' = store \cup {[collection |-> QuoteCollection, data |-> payload[h], id |-> id]}
    /\ doc_id' = SetDocId(doc_id, h, id)
    /\ storeOutcome' = Set(storeOutcome, h, [kind |-> "returned", id |-> id])
    /\ Notify(h, doc_id'[h])
    /\ UNCHANGED << app, worldVars, payload, conn, pending, testVars >>

\* A handler that calls create_document once more after a failure.
PersistAgainOnce(h) == calls[h].store < 2

\* Whether submit_quote calls create_document again after a failure: line 30
\* falls through to line 33.
PersistAgain(h) == FALSE

\* Lines 27-30: create_document raises an exception of class k.
PersistRaise(h, k) ==
    /\ pc[h] = "persisting"
    /\ storeOutcome' = Set(storeOutcome, h, [kind |-> "raised"])
    /\ IF ~QuoteCatches(k)
       THEN /\ pc' = Set(pc, h, "done")
            /\ result' = Set(result, h, [kind |-> "exception", exc |-> k])
            /\ UNCHANGED << doc_id, msg, calls, sendOutcome >>
       ELSE IF PersistAgain(h)
       THEN /\ calls' = Count(calls, h, "store")
            /\ UNCHANGED << pc, result, doc_id, msg, sendOutcome >>
       ELSE /\ doc_id' = SetDocId(doc_id, h, None)
            /\ Notify(h, doc_id'[h])
    /\ UNCHANGED << app, worldVars, store, payload, conn, pending, testVars >>

\* Line 61: smtplib.SMTP(smtp_host, smtp_port) connects.
SmtpConnect(h) ==
    /\ pc[h] = "connecting"
    /\ conn' = Set(conn, h, "open")
    /\ pc' = Set(pc, h, "starttls")
    /\ UNCHANGED << app, worldVars, store, payload, doc_id, msg, pending, result,
                    calls, storeOutcome, sendOutcome, testVars >>

\* Line 61: smtplib.SMTP(...) raises; no connection is left behind.
SmtpConnectRaise(h, k) ==
    /\ pc[h] = "connecting"
    /\ sendOutcome' = Set(sendOutcome, h, "raised")
    /\ Finish(h, doc_id[h], "raised", k)
    /\ UNCHANGED << app, worldVars, store, payload, doc_id, msg, conn, pending,
                    calls, storeOutcome, testVars >>

\* Line 62: server.starttls() returns.
StartTls(h) ==
    /\ pc[h] = "starttls"
    /\ pc' = Set(pc, h, "login")
    /\ UNCHANGED << app, worldVars, store, payload, doc_id, msg, conn, pending, result,
                    calls, storeOutcome, sendOutcome, testVars >>

\* Line 63: server.login(smtp_user, smtp_pass) returns; line 64 calls sendmail.
Login(h) ==
    /\ pc[h] = "login"
    /\ pc' = Set(pc, h, "sendmail")
    /\ calls' = Count(calls, h, "sendmail")
    /\ UNCHANGED << app, worldVars, store, payload, doc_id, msg, conn, pending, result,
                    storeOutcome, sendOutcome, testVars >>

\* Line 64: server.sendmail(sender, [recipient], msg.as_string()) returns.
SendMail(h) ==
    /\ pc[h] = "sendmail"
    /\ sendOutcome' = Set(sendOutcome, h, "sent")
    /\ pc' = Set(pc, h, "exit")
    /\ UNCHANGED << app, worldVars, store, payload, doc_id, msg, conn, pending, result,
                    calls, storeOutcome, testVars >>

\* Lines 62-64: starttls, login or sendmail raises inside the `with` block.
SmtpRaise(h, k) ==
    /\ pc[h] \in {"starttls", "login", "sendmail"}
    /\ pending' = Set(pending, h, k)
    /\ sendOutcome' = Set(sendOutcome, h, "raised")
    /\ pc' = Set(pc, h, "exit")
    /\ UNCHANGED << app, worldVars, store, payload, doc_id, msg, conn, result,
                    calls, storeOutcome, testVars >>

\* The connection after the block when it is closed by an explicit quit() on
\* the normal path only.
ConnAfterBlockQuitOnly(c, exc) == IF exc = NoPending THEN "closed" ELSE c

\* The connection after the `with` block (line 61): SMTP.__exit__ runs on every
\* way out of the block and closes the socket in its `finally`.
ConnAfterBlock(c, exc) == "closed"

\* Lines 61-69, leaving the `with` block: __exit__ sends QUIT and closes; the
\* exception in flight, or the one QUIT raised, reaches line 66, and the
\* handler returns.
SmtpExit(h, quit) ==
    /\ pc[h] = "exit"
    /\ conn' = Set(conn, h, ConnAfterBlock(conn[h], pending[h]))
    /\ pending' = Set(pending, h, NoPending)
    /\ Finish(h, doc_id[h], sendOutcome[h], IF quit # "ok" THEN quit ELSE pending[h])
    /\ UNCHANGED << app, worldVars, store, payload, doc_id, msg, calls,
                    storeOutcome, sendOutcome, testVars >>

SubmitQuote(h) ==
    \/ \E p \in Payloads : Receive(h, p)
    \/ \E id \in Ids : PersistReturn(h, id)
    \/ \E k \in StoreErrors : PersistRaise(h, k)
    \/ SmtpConnect(h)
    \/ \E k \in SmtpErrors : SmtpConnectRaise(h, k)
    \/ StartTls(h)
    \/ Login(h)
    \/ SendMail(h)
    \/ \E k \in SmtpErrors : SmtpRaise(h, k)
    \/ \E quit \in {"ok"} \cup SmtpErrors : SmtpExit(h, quit)

Next ==
    \/ LoadModule
    \/ \E h \in Handlers : SubmitQuote(h)

Spec == Init /\ [][Next]_vars

---------------------------------------------------------------------------
\* test_database (lines 98-140)

\* collections[:10] shows this many names (line 123).
ShownCollections == 10

\* str(e)[:50] keeps this many characters (lines 126, 133).
ShownErrorChars == 50

\* seq[:n]
Take(seq, n) == SubSeq(seq, 1, IF Len(seq) < n THEN Len(seq) ELSE n)

\* A text of n characters.
Text(n) == [i \in 1..n |-> "e"]

\* What list_collection_names() may return: no, a few, exactly ten, or more
\* than ten names.
CollectionLists == { [i \in 1..n |-> i] : n \in {0, 2, 10, 12} }

\* Messages of the exceptions the listing may raise: short, or longer than
\* what the report shows.
ErrorTexts == { Text(7), Text(60) }

Status(text) == [text |-> text, detail |-> <<>>]

StatusWith(text, e) == [text |-> text, detail |-> Take(e, ShownErrorChars)]

ModuleNotFound == Status("Database module not found (run enable-database first)")

\* Lines 101-108
InitialResponse ==
    [ backend           |-> "Running",
      database          |-> Status("Not Available"),
      database_url      |-> None,
      database_name     |-> None,
      connection_status |-> "Not Connected",
      collections       |-> <<>> ]

\* Line 117: db.name if hasattr(db, 'name') else "Connected"
DatabaseName(d) == IF d = "live" THEN Str("quotes") ELSE Str("Connected")

\* GET /test, lines 101-128 up to the call of list_collection_names:
\* `from database import db` and the test of db.
TestImport ==
    /\ app = "running"
    /\ tpc = "idle"
    /\ IF modules.database = "missing" \/ db = "undefined"
       THEN \* ImportError (lines 130-131)
            /\ response' = [InitialResponse EXCEPT !.database = ModuleNotFound]
            /\ tpc' = "env"
       ELSE IF db = "none"
       THEN \* line 128
            /\ response' = [InitialResponse EXCEPT
                               !.database = Status("Available but not initialized")]
            /\ tpc' = "env"
       ELSE IF db = "broken"
       THEN \* db.name raises: lines 115-116 have run, lines 132-133 follow
            /\ \E e \in ErrorTexts :
                 response' = [InitialResponse EXCEPT
                                 !.database = StatusWith("Error", e),
                                 !.database_url = Str("Configured")]
            /\ tpc' = "env"
       ELSE \* lines 115-122
            /\ response' = [InitialResponse EXCEPT
                               !.database = Status("Available"),
                               !.database_url = Str("Configured"),
                               !.database_name = DatabaseName(db),
                               !.connection_status = "Connected"]
            /\ tpc' = "listing"
    /\ UNCHANGED << app, worldVars, store, quoteVars, testResult >>

\* Lines 122-124: list_collection_names() returns.
TestList(names) ==
    /\ tpc = "listing"
    /\ response' = [response EXCEPT
                       !.collections = Take(names, ShownCollections),
                       !.database = Status("Connected & Working")]
    /\ tpc' = "env"
    /\ UNCHANGED << app, worldVars, store, quoteVars, testResult >>

\* Lines 125-126: list_collection_names() raises an exception with message e.
TestListRaise(e) ==
    /\ tpc = "listing"
    /\ response' = [response EXCEPT !.database = StatusWith("Connected but Error", e)]
    /\ tpc' = "env"
    /\ UNCHANGED << app, worldVars, store, quoteVars, testResult >>

EnvFlag(e, name) == IF Truthy(GetEnv(e, name)) THEN Str("Set") ELSE Str("Not Set")

\* Lines 136-140: the environment is reported and the response returned.
TestReturn ==
    /\ tpc = "env"
    /\ response' = [response EXCEPT
                       !.database_url = EnvFlag(env, "DATABASE_URL"),
                       !.database_name = EnvFlag(env, "DATABASE_NAME")]
    /\ testResult' = [kind |-> "response", body |-> response']
    /\ tpc' = "done"
    /\ UNCHANGED << app, worldVars, store, quoteVars >>

TestDatabase ==
    \/ TestImport
    \/ \E names \in CollectionLists : TestList(names)
    \/ \E e \in ErrorTexts : TestListRaise(e)
    \/ TestReturn

\* The server as deployed with or without its store: the database module may
\* be missing, may define no db, and db may be None or a handle.
InitDiag ==
    /\ app = "loading"
    /\ \E m \in {"ok", "no_db", "missing"} :
         /\ modules = [schemas |-> "ok", database |-> m]
         /\ IF m = "ok" THEN db \in {"none", "live", "unnamed", "broken"}
            ELSE db = "undefined"
    /\ \E url \in SettingValues("mongodb://localhost"), name \in SettingValues("quotes") :
         env = [BaseEnv EXCEPT !["DATABASE_URL"] = url, !["DATABASE_NAME"] = name]
    /\ store = {}
    /\ InitQuoteState
    /\ InitTestState

NextDiag ==
    \/ LoadModule
    \/ TestDatabase

SpecDiag == InitDiag /\ [][NextDiag]_vars

---------------------------------------------------------------------------
\* Properties

Done(h) == pc[h] = "done"

Entered(h) == pc[h] # "idle" /\ ValidQuoteRequest(payload[h])

OkResponse(d) == [kind |-> "response", status |-> "ok", id |-> d]

SmtpSettings == {"SMTP_HOST", "SMTP_USER", "SMTP_PASS"}

Missing(x) == x = None \/ x = Str("")

AllSettingsPresent == \A n \in SmtpSettings : ~Missing(env[n])

\* The identifier submission h obtained from the store, None if it obtained none.
OwnId(h) == IF storeOutcome[h].kind = "returned" THEN storeOutcome[h].id ELSE None

C2_PersistFailureSwallowed ==
    \A h \in Handlers :
        storeOutcome[h].kind = "raised" =>
            /\ doc_id[h] = None
            /\ result[h].kind # "exception"
            /\ msg[h] # None
            /\ pc[h] \in {"connecting", "starttls", "login", "sendmail", "exit", "done"}
            /\ Done(h) => result[h] = OkResponse(None)

C2_Witness ==
    \E h \in Handlers :
        /\ storeOutcome[h].kind = "raised"
        /\ Done(h)
        /\ sendOutcome[h] = "sent"
        /\ result[h] = OkResponse(None)

\* C3: with host, user and credential all present, two finished submissions of
\* the same request with the same persistence outcome, one whose send
\* succeeded and one whose send raised, have returned the same response.
C3_SendFailureInvisible ==
    \A h1, h2 \in Handlers :
        ( /\ AllSettingsPresent
          /\ Done(h1) /\ Done(h2)
          /\ ValidQuoteRequest(payload[h1])
          /\ payload[h1] = payload[h2]
          /\ storeOutcome[h1] = storeOutcome[h2]
          /\ sendOutcome[h1] = "sent"
          /\ sendOutcome[h2] = "raised" )
        => result[h1] = result[h2]

C3_Witness ==
    \E h1, h2 \in Handlers :
        /\ AllSettingsPresent
        /\ Done(h1) /\ Done(h2)
        /\ payload[h1] = payload[h2]
        /\ storeOutcome[h1].kind = "returned"
        /\ storeOutcome[h1] = storeOutcome[h2]
        /\ sendOutcome[h1] = "sent"
        /\ sendOutcome[h2] = "raised"
        /\ calls[h2].sendmail = 1
        /\ result[h1] = result[h2]

\* C4: when one of SMTP_HOST, SMTP_USER, SMTP_PASS is unset or empty, no
\* submission calls smtplib.SMTP or sendmail or holds a connection, and a
\* finished valid submission has still returned status "ok".
C4_NoSendWithoutConfig ==
    (\E n \in SmtpSettings : Missing(env[n])) =>
        \A h \in Handlers :
            /\ calls[h].smtp = 0
            /\ calls[h].sendmail = 0
            /\ conn[h] = "none"
            /\ (Done(h) /\ ValidQuoteRequest(payload[h])) =>
                   /\ result[h].kind = "response"
                   /\ result[h].status = "ok"

C4_Witness ==
    /\ env["SMTP_HOST"] = Str("smtp.example.com")
    /\ env["SMTP_USER"] = Str("builder")
    /\ env["SMTP_PASS"] = Str("")
    /\ env["SMTP_PORT"] = None
    /\ \E h \in Handlers :
           /\ Done(h)
           /\ storeOutcome[h].kind = "returned"
           /\ calls[h].smtp = 0
           /\ result[h] = OkResponse(storeOutcome[h].id)

\* C5: a submission whose payload is not a well-formed QuoteRequest is
\* answered with the validation error and nothing else happens for it: no
\* create_document call, no document stored, no message, no SMTP call; and no
\* submission ever ends with an exception, so the validation error is the
\* only error a caller sees, and only for a payload that is not well formed.
C5_InvalidRejectedBeforeHandler ==
    \A h \in Handlers :
        /\ (pc[h] # "idle" /\ ~ValidQuoteRequest(payload[h])) =>
               /\ Done(h)
               /\ result[h] = [kind |-> "validation_error"]
               /\ calls[h] = NoCalls
               /\ msg[h] = None
               /\ \A d \in store : d.data # payload[h]
        /\ result[h].kind \in {"none", "response", "validation_error"}
        /\ result[h].kind = "validation_error" => ~ValidQuoteRequest(payload[h])

C5_Witness ==
    \E h \in Handlers :
        /\ Done(h)
        /\ payload[h].name = Str("Ann")
        /\ ~IsValidEmail(payload[h].email.v)
        /\ result[h] = [kind |-> "validation_error"]

\* C6: GET /test returns a status report on every failure path; when the
\* database module cannot be loaded the application still serves it, and the
\* report says "module not found" and lists no collections.
C6_TestReportsMissingModule ==
    /\ testResult.kind # "exception"
    /\ (modules.database = "missing" /\ app # "loading") =>
           /\ app = "running"
           /\ tpc = "done" =>
                  /\ testResult.body.database = ModuleNotFound
                  /\ testResult.body.collections = <<>>

\* C7: the record identifier in the message is the identifier the store
\* returned for this submission (the one returned as id in the response) or
\* the "not saved" marker; it is the marker exactly when no identifier was
\* obtained, and it is never empty nor the text of a null.
C7_RecordIdOrMarker ==
    \A h \in Handlers :
        msg[h] # None =>
            /\ msg[h].RecordID \in {id.v : id \in Ids} \cup {"not saved"}
            /\ msg[h].RecordID \notin {"", "None"}
            /\ storeOutcome[h].kind = "returned" =>
                   /\ msg[h].RecordID = storeOutcome[h].id.v
                   /\ Done(h) => result[h].id.v = msg[h].RecordID
            /\ (msg[h].RecordID = "not saved") <=> (storeOutcome[h].kind # "returned")

C7_Witness ==
    \E h1, h2 \in Handlers :
        /\ msg[h1] # None /\ msg[h2] # None
        /\ storeOutcome[h1].kind = "returned"
        /\ msg[h1].RecordID = storeOutcome[h1].id.v
        /\ Done(h1)
        /\ storeOutcome[h2].kind = "raised"
        /\ msg[h2].RecordID = "not saved"

\* C8: a submission calls create_document at most once and opens at most one
\* SMTP connection and calls sendmail at most once, also after a failure, and
\* create_document has returned or raised before smtplib.SMTP is called.
C8_AtMostOnceInOrder ==
    \A h \in Handlers :
        /\ calls[h].store <= 1
        /\ calls[h].smtp <= 1
        /\ calls[h].sendmail <= 1
        /\ calls[h].smtp > 0 =>
               /\ calls[h].store = 1
               /\ storeOutcome[h].kind # "none"
               /\ pc[h] # "persisting"
        /\ calls[h].sendmail > 0 => calls[h].smtp = 1

C8_Witness ==
    \E h \in Handlers :
        /\ Done(h)
        /\ storeOutcome[h].kind = "raised"
        /\ sendOutcome[h] = "raised"
        /\ calls[h] = [store |-> 1, smtp |-> 1, sendmail |-> 1]

\* C9: in every interleaving, the doc_id, the message and the response of a
\* submission are those given by its own request and its own persistence
\* outcome, whatever the other submissions did.
C9_Independent ==
    \A h \in Handlers :
        /\ storeOutcome[h].kind # "none" => doc_id[h] = OwnId(h)
        /\ msg[h] # None => msg[h] = Message(env, payload[h], OwnId(h))
        /\ (Done(h) /\ ValidQuoteRequest(payload[h])) => result[h] = OkResponse(OwnId(h))

C9_Witness ==
    \E h1, h2 \in Handlers :
        /\ Done(h1) /\ Done(h2)
        /\ payload[h1] = AnnRequest /\ payload[h2] = BobRequest
        /\ storeOutcome[h1].kind = "returned"
        /\ storeOutcome[h2].kind = "raised"
        /\ sendOutcome[h1] = "raised" /\ sendOutcome[h2] = "sent"
        /\ result[h1] = OkResponse(storeOutcome[h1].id)
        /\ result[h2] = OkResponse(None)

\* C10: a submission that has returned holds no open SMTP connection: a
\* connection it opened is closed, whether starttls, login and sendmail
\* succeeded or one of them raised.
C10_ConnectionReleased ==
    \A h \in Handlers :
        /\ Done(h) => conn[h] # "open"
        /\ (Done(h) /\ calls[h].smtp = 1 /\ sendOutcome[h] = "sent") => conn[h] = "closed"

C10_Witness ==
    \E h \in Handlers :
        /\ Done(h)
        /\ sendOutcome[h] = "raised"
        /\ calls[h].sendmail = 1
        /\ conn[h] = "closed"

====
